---------------------------- MODULE Spec2Model ----------------------------
(***************************************************************************)
(* MageFlag (src/src/main.rs): a clipboard watcher that quantizes a        *)
(* captured bitmap against a palette sampled from a reference image and    *)
(* writes the result, a CSV of "u:v" palette-cell coordinates, to the      *)
(* registry.                                                               *)
(*                                                                         *)
(* Three specifications share the variables:                               *)
(*   SpecSampler  sample_palette / average_patch applied to a family of    *)
(*                reference images,                                        *)
(*   SpecEncoder  encode_uv_csv / lab_distance applied to a family of      *)
(*                resized images and palettes,                             *)
(*   Spec         the program: main's watcher thread and the UI thread     *)
(*                sharing Arc<Mutex<AppState>>.                            *)
(***************************************************************************)
EXTENDS Integers, Sequences, FiniteSets, TLC

VARIABLES
    \* ---- sample_palette (SpecSampler) ----
    s_pc,           \* "start" | "done" | "panicked"
    ref_img,        \* the reference image handed to sample_palette
    s_out,          \* what the call did: colors, centres, reads
    \* ---- encode_uv_csv (SpecEncoder) ----
    e_pc,           \* "start" | "done"
    enc_img,        \* the resized image handed to encode_uv_csv
    enc_palette,    \* the palette handed to encode_uv_csv
    e_out,          \* what the call did: result (tokens), visited, csv
    \* ---- the program (Spec) ----
    palette,        \* main.rs:70, built once before the threads start
    w_pc,           \* position of the watcher thread
    image,          \* the image of the current cycle (main.rs:83)
    last_hash,      \* main.rs:80
    csv,            \* main.rs:101, the encoded string of the current cycle
    registry,       \* the value under REGISTRY_VALUE_NAME
    mutex,          \* holder of the state mutex: "none" | "watcher" | "ui"
    poisoned,       \* the mutex is poisoned (a holder panicked)
    last_update,    \* AppState.last_update
    quit_requested, \* AppState.quit_requested
    ui_pc,          \* position of the UI thread
    exited,         \* the process has ended
    cyc,            \* history of the current polling cycle
    hist            \* history of the whole run

vars == << s_pc, ref_img, s_out, e_pc, enc_img, enc_palette, e_out,
           palette, w_pc, image, last_hash, csv, registry, mutex,
           poisoned, last_update, quit_requested, ui_pc, exited, cyc, hist >>

samplerVars == << s_pc, ref_img, s_out >>
encoderVars == << e_pc, enc_img, enc_palette, e_out >>
programVars == << palette, w_pc, image, last_hash, csv, registry, mutex,
                  poisoned, last_update, quit_requested, ui_pc, exited, cyc,
                  hist >>

(***************************************************************************)
(* CONFIG (main.rs:13-17)                                                  *)
(***************************************************************************)
PALETTE_COLS == 7
PALETTE_ROWS == 6

\* IMAGE_WIDTH and IMAGE_HEIGHT (100 and 66 in main.rs:14-15) are the encoder's
\* out_width and out_height; the model runs the same loops on a smaller grid.
out_width == 3
out_height == 2

\* Largest reference image of SpecSampler (the grid is 7 x 6, so these sizes
\* cover images smaller than, equal to and larger than the grid).
MaxW == 8
MaxH == 7

\* u8 channels
ChannelMod == 256

(***************************************************************************)
(* f32 arithmetic. A positive f32 is <<m, e>> = m * 2^e with                *)
(* 2^23 <= m < 2^24 (all values met here are normal numbers). Every        *)
(* operation rounds to nearest, ties to even, as IEEE 754 does.            *)
(***************************************************************************)
Pow2(k) == 2 ^ k
MantLo == Pow2(23)
MantHi == Pow2(24)

\* q rounded to nearest-even given the remainder r of a division by d
RoundEven(q, r, d) ==
    IF 2 * r > d \/ (2 * r = d /\ q % 2 = 1) THEN q + 1 ELSE q

Renorm(m, e) == IF m = MantHi THEN << MantLo, e + 1 >> ELSE << m, e >>

\* the f32 nearest to a / b, for integers a, b > 0 with a / b < 2^24: the
\* quotient is scaled by the power of two that gives it 24 bits
F32Div(a, b) ==
    LET k == CHOOSE i \in 0..30 : (a * Pow2(i)) \div b >= MantLo
        n == a * Pow2(k)
    IN  Renorm(RoundEven(n \div b, n % b, b), -k)

\* the integer p >= 2^23 times 2^e, rounded to 24 bits
F32Shift(p, e) ==
    LET s == CHOOSE i \in 0..30 : p \div Pow2(i) < MantHi
    IN  Renorm(RoundEven(p \div Pow2(s), p % Pow2(s), Pow2(s)), e + s)

\* (k / 2) * f for an odd integer k: (col as f32 + 0.5) * f with k = 2 col + 1
F32MulHalf(k, f) == F32Shift(k * f[1], f[2] - 1)

\* f32::round: to the nearest integer, halves away from zero; then `as u32`
F32RoundToU32(f) ==
    IF f[2] >= 0 THEN f[1] * Pow2(f[2])
    ELSE LET d == Pow2(-f[2])
             q == f[1] \div d
             r == f[1] % d
         IN  IF 2 * r >= d THEN q + 1 ELSE q

\* format!("{:.2}"): the exact decimal value rounded to hundredths (ties to
\* even), given in hundredths
F32Hundredths(f) ==
    IF f[2] >= 0 THEN 100 * f[1] * Pow2(f[2])
    ELSE LET d == Pow2(-f[2])
         IN  RoundEven((100 * f[1]) \div d, (100 * f[1]) % d, d)

\* Option: None, or Some of a value
None == << >>
Some(t) == << t >>

Min(a, b) == IF a < b THEN a ELSE b
Clamp(v, lo, hi) == IF v < lo THEN lo ELSE IF v > hi THEN hi ELSE v


(***************************************************************************)
(* Colours. A colour is <<r, g, b>> with u8 channels. ColorTable is the    *)
(* set of colours the encoder is run on; LabTable[i] is the CIE L*a*b*     *)
(* value (D65) of ColorTable[i] as palette's Lab::from_color computes it   *)
(* from Srgb<u8>, in units of 1/100.                                       *)
(***************************************************************************)
ColorTable ==
    << <<0, 0, 0>>,       <<0, 42, 120>>,    <<0, 85, 240>>,
       <<0, 127, 0>>,     <<0, 170, 120>>,   <<0, 212, 240>>,
       <<0, 255, 0>>,     <<51, 0, 120>>,    <<51, 42, 240>>,
       <<51, 85, 0>>,     <<51, 127, 120>>,  <<51, 170, 240>>,
       <<51, 212, 0>>,    <<51, 255, 120>>,  <<102, 0, 240>>,
       <<102, 42, 0>>,    <<102, 85, 120>>,  <<102, 127, 240>>,
       <<102, 170, 0>>,   <<102, 212, 120>>, <<102, 255, 240>>,
       <<153, 0, 0>>,     <<153, 42, 120>>,  <<153, 85, 240>>,
       <<153, 127, 0>>,   <<153, 170, 120>>, <<153, 212, 240>>,
       <<153, 255, 0>>,   <<204, 0, 120>>,   <<204, 42, 240>>,
       <<204, 85, 0>>,    <<204, 127, 120>>, <<204, 170, 240>>,
       <<204, 212, 0>>,   <<204, 255, 120>>, <<255, 0, 240>>,
       <<255, 42, 0>>,    <<255, 85, 120>>,  <<255, 127, 240>>,
       <<255, 170, 0>>,   <<255, 212, 120>>, <<255, 255, 240>> >>

LabTable ==
    << <<0, 0, 0>>,           <<2009, 2145, -4780>>,  <<4244, 4031, -8259>>,
       <<4588, -5141, 4962>>, <<6174, -4923, 1555>>,  <<7809, -3320, -2592>>,
       <<8773, -8618, 8318>>, <<1580, 4717, -5477>>,  <<3530, 6557, -9436>>,
       <<3226, -2562, 3937>>, <<4856, -2506, -321>>,  <<6632, -896, -4412>>,
       <<7469, -7095, 7291>>, <<8872, -7510, 5066>>,  <<3620, 7822, -9274>>,
       <<2520, 2484, 3583>>,  <<3903, 1444, -1725>>,  <<5638, 2382, -5979>>,
       <<6299, -4380, 6434>>, <<7684, -5085, 3606>>,  <<9197, -4382, -495>>,
       <<3129, 5470, 4514>>,  <<3746, 5325, -1909>>,  <<5134, 5799, -6770>>,
       <<5398, -66, 5928>>,   <<6719, -1475, 2387>>,  <<8192, -1207, -1975>>,
       <<9091, -6019, 8704>>, <<4451, 7301, -746>>,   <<5272, 8300, -6514>>,
       <<5108, 4416, 6077>>,  <<6111, 2900, 1640>>,   <<7475, 2550, -3037>>,
       <<8180, -2214, 8145>>, <<9419, -3659, 5850>>,  <<5949, 9620, -5382>>,
       <<5499, 7506, 6785>>,  <<6089, 6644, 1726>>,   <<7137, 6290, -3513>>,
       <<7608, 2133, 7970>>,  <<8685, 425, 5071>>,    <<9964, -255, 716>> >>

NumColors == Len(ColorTable)

(***************************************************************************)
(* Images. A decoded image is a record [w, h, kind, seed]; its pixels are  *)
(* given by get_pixel:                                                     *)
(*   "solid"  every pixel the colour SolidColor(seed);                     *)
(*   "coord"  every pixel a function of its coordinates, so that a read    *)
(*            at the wrong place shows in the result;                      *)
(*   "grid"   a PALETTE_COLS x PALETTE_ROWS chart of the ColorTable        *)
(*            colours, the layout of the embedded palette.png;             *)
(*   "table"  pixel k (in the encoder's visiting order) the colour         *)
(*            ColorTable[seed + k * step], wrapping around;                *)
(*   "nearest" a "table" image of sw x sh pixels resized to w x h with     *)
(*            FilterType::Nearest.                                         *)
(***************************************************************************)
SolidColor(seed) ==
    << seed % ChannelMod,
       (ChannelMod - 1 - seed) % ChannelMod,
       (seed + 128) % ChannelMod >>

CoordColor(seed, x, y) ==
    << (17 * x + seed) % ChannelMod,
       (29 * y + 3 * seed) % ChannelMod,
       (17 * x + 29 * y + 100) % ChannelMod >>

GridColor(img, x, y) ==
    ColorTable[((y * PALETTE_ROWS) \div img.h) * PALETTE_COLS
               + ((x * PALETTE_COLS) \div img.w) + 1]

TableColor(img, x, y) ==
    ColorTable[((img.seed + img.step * (x * img.h + y)) % NumColors) + 1]

\* resize_exact(.., FilterType::Nearest): the output pixel (x, y) is the source
\* pixel under its centre, (x + 0.5) * sw / w
NearestColor(img, x, y) ==
    TableColor([seed |-> img.seed, step |-> img.step, h |-> img.sh],
               ((2 * x + 1) * img.sw) \div (2 * img.w),
               ((2 * y + 1) * img.sh) \div (2 * img.h))

InImage(img, x, y) == x \in 0..(img.w - 1) /\ y \in 0..(img.h - 1)

\* GenericImageView::get_pixel; it panics outside the image, so callers are
\* modelled to test InImage first.
get_pixel(img, x, y) ==
    CASE img.kind = "solid" -> SolidColor(img.seed)
      [] img.kind = "coord" -> CoordColor(img.seed, x, y)
      [] img.kind = "grid"  -> GridColor(img, x, y)
      [] img.kind = "table" -> TableColor(img, x, y)
      [] img.kind = "nearest" -> NearestColor(img, x, y)

(***************************************************************************)
(* average_patch (main.rs:173-192)                                         *)
(***************************************************************************)
\* the unclamped coordinate: what line 181 would read without .clamp
PatchCoordUnclamped(c, d, n) == c + d

\* main.rs:181-182: (c as i32 + d).clamp(0, n as i32 - 1) as u32
PatchCoord(c, d, n) == Clamp(c + d, 0, n - 1)

\* the 9 reads in loop order: dx outer, dy inner (main.rs:179-183)
PatchReads(img, cx, cy) ==
    [k \in 1..9 |-> << PatchCoord(cx, ((k - 1) \div 3) - 1, img.w),
                       PatchCoord(cy, ((k - 1) % 3) - 1, img.h) >>]

RECURSIVE SumChannel(_, _, _, _)
\* r += pixel[ch] as u32 over reads[1..k] (main.rs:184-186)
SumChannel(img, reads, ch, k) ==
    IF k = 0 THEN 0
    ELSE SumChannel(img, reads, ch, k - 1)
         + get_pixel(img, reads[k][1], reads[k][2])[ch]

\* a sum kept in a u8 accumulator would wrap before the division
PatchAverageU8(sum, count) == ((sum % ChannelMod) \div count) % ChannelMod

\* main.rs:191: (r / count) as u8
PatchAverage(sum, count) == (sum \div count) % ChannelMod

average_patch(img, cx, cy) ==
    LET reads == PatchReads(img, cx, cy)
        ok    == \A k \in 1..Len(reads) : InImage(img, reads[k][1], reads[k][2])
        count == Len(reads)
    IN  [ ok    |-> ok,
          reads |-> reads,
          color |-> IF ok
                    THEN [ch \in 1..3 |->
                            PatchAverage(SumChannel(img, reads, ch, count), count)]
                    ELSE << >> ]

(***************************************************************************)
(* sample_palette (main.rs:154-171)                                        *)
(***************************************************************************)
\* main.rs:156-157 and 163-164: ((k as f32 + 0.5) * (size as f32 / n as f32))
\* .round() as u32
CellCentre(k, n, size) == F32RoundToU32(F32MulHalf(2 * k + 1, F32Div(size, n)))

\* main.rs:165: cx.min(w - 1)
CentreArg(k, n, size) == Min(CellCentre(k, n, size), size - 1)

\* one iteration of the inner loop body (main.rs:163-166)
SampleCell(img, row, col) ==
    LET cx == CentreArg(col, PALETTE_COLS, img.w)
        cy == CentreArg(row, PALETTE_ROWS, img.h)
        p  == average_patch(img, cx, cy)
    IN  [ok |-> p.ok, color |-> p.color, centre |-> << cx, cy >>, reads |-> p.reads]

RECURSIVE SampleRow(_, _, _)
\* for col in 0..PALETTE_COLS { .. } from col on (main.rs:162-167)
SampleRow(img, row, col) ==
    IF col = PALETTE_COLS THEN << >>
    ELSE << SampleCell(img, row, col) >> \o SampleRow(img, row, col + 1)

RECURSIVE SampleColumn(_, _, _)
SampleColumn(img, row, col) ==
    IF row = PALETTE_ROWS THEN << >>
    ELSE << SampleCell(img, row, col) >> \o SampleColumn(img, row + 1, col)

RECURSIVE SampleColumns(_, _)
\* the loops nested the other way round: col outside, row inside
SampleColumns(img, col) ==
    IF col = PALETTE_COLS THEN << >>
    ELSE SampleColumn(img, 0, col) \o SampleColumns(img, col + 1)

RECURSIVE SampleRows(_, _)
\* for row in 0..PALETTE_ROWS { .. } from row on (main.rs:161-168): the cells
\* in the order the loops reach them
SampleRows(img, row) ==
    IF row = PALETTE_ROWS THEN << >>
    ELSE SampleRow(img, row, 0) \o SampleRows(img, row + 1)

\* colors holds what was pushed; a panic in average_patch ends the call
sample_palette(img) ==
    LET cells == SampleRows(img, 0)
        ok    == \A k \in 1..Len(cells) : cells[k].ok
    IN  [ ok      |-> ok,
          colors  |-> IF ok THEN [k \in 1..Len(cells) |-> cells[k].color] ELSE << >>,
          centres |-> [k \in 1..Len(cells) |-> cells[k].centre],
          reads   |-> [k \in 1..Len(cells) |-> cells[k].reads] ]

(***************************************************************************)
(* lab_distance (main.rs:223-232)                                          *)
(***************************************************************************)
\* Lab::from_color(Srgb::new(r, g, b).into_format()) (main.rs:224-225)
LabOf(rgb) == LabTable[CHOOSE i \in 1..NumColors : ColorTable[i] = rgb]

\* dl * dl + da * da + db * db of main.rs:227-231, in units of 1/10000. The
\* code returns its square root; the root is increasing, and the distances are
\* only ever compared (main.rs:206), so the order is the same.
lab_distance(a, b) ==
    LET la == LabOf(a)
        lb == LabOf(b)
        dl == la[1] - lb[1]
        da == la[2] - lb[2]
        db == la[3] - lb[3]
    IN  dl * dl + da * da + db * db

(***************************************************************************)
(* encode_uv_csv (main.rs:194-221)                                         *)
(***************************************************************************)
\* a comparison that lets a later equal element win
MinByLast(v1, v2) == IF v1[2] >= v2[2] THEN v2 ELSE v1

\* the step of Iterator::min_by with a.1.partial_cmp(&b.1) (main.rs:206):
\* the later element v2 replaces v1 only when v1 compares Greater
MinBy(v1, v2) == IF v1[2] > v2[2] THEN v2 ELSE v1

RECURSIVE MinByRun(_, _, _, _, _)
\* MinBy folded over the elements i..n of the palette (counted from 1), best
\* being the minimum of the elements before them
MinByRun(rgb, pal, i, n, best) ==
    IF i > n THEN best
    ELSE MinByRun(rgb, pal, i + 1, n,
                  MinBy(best, << i - 1, lab_distance(rgb, pal[i]) >>))

RECURSIVE MinByFold(_, _, _)
\* palette.iter().enumerate().map(..).min_by(..) over the first n elements
\* (main.rs:202-206): None for no element, else the first element folded with
\* the others by MinBy in enumeration order. The fold is evaluated a palette
\* row at a time.
MinByFold(rgb, pal, n) ==
    IF n = 0 THEN None
    ELSE LET before == ((n - 1) \div PALETTE_COLS) * PALETTE_COLS
             prev   == MinByFold(rgb, pal, before)
         IN  IF prev = None
             THEN MinByRun(rgb, pal, 2, n, << 0, lab_distance(rgb, pal[1]) >>)
             ELSE MinByRun(rgb, pal, before + 1, n, prev)

\* the idx of main.rs:202-207, for a non-empty palette (the .unwrap() of
\* line 207 panics on None)
NearestIndex(rgb, pal) == MinByFold(rgb, pal, Len(pal))[1]

Digit(d) == << "0", "1", "2", "3", "4", "5", "6", "7", "8", "9" >>[d + 1]

RECURSIVE Digits(_)
Digits(n) == IF n < 10 THEN << Digit(n) >> ELSE Append(Digits(n \div 10), Digit(n % 10))

\* format!("{f:.2}") as a sequence of characters
Fmt2(f) ==
    LET h == F32Hundredths(f)
    IN  Digits(h \div 100) \o << ".", Digit((h \div 10) % 10), Digit(h % 10) >>

\* the token without the flip of the row
UvTokenNoFlip(idx) ==
    LET row == idx \div PALETTE_COLS
        col == idx % PALETTE_COLS
    IN  Fmt2(F32Div(2 * col + 1, 2 * PALETTE_COLS)) \o << ":" >>
        \o Fmt2(F32Div(2 * row + 1, 2 * PALETTE_ROWS))

\* main.rs:209-216: (col + 0.5) / PALETTE_COLS is (2 col + 1) / (2 PALETTE_COLS)
UvToken(idx) ==
    LET raw_row == idx \div PALETTE_COLS
        row     == PALETTE_ROWS - 1 - raw_row
        col     == idx % PALETTE_COLS
    IN  Fmt2(F32Div(2 * col + 1, 2 * PALETTE_COLS)) \o << ":" >>
        \o Fmt2(F32Div(2 * row + 1, 2 * PALETTE_ROWS))

\* the loop body (main.rs:199-216): the index chosen for pixel (x, y) and the
\* token pushed for it
EncodePixel(img, pal, x, y) ==
    LET idx == NearestIndex(get_pixel(img, x, y), pal)
    IN  [x |-> x, y |-> y, idx |-> idx, token |-> UvToken(idx)]

RECURSIVE EncodeColumnTopDown(_, _)
\* the inner loop without .rev()
EncodeColumnTopDown(x, y) ==
    IF y < 0 THEN << >>
    ELSE << << x, out_height - 1 - y >> >> \o EncodeColumnTopDown(x, y - 1)

RECURSIVE EncodeColumn(_, _)
\* for y in (0..IMAGE_HEIGHT).rev() { .. } from y down (main.rs:198): the
\* pixels of column x in the order the loop reaches them
EncodeColumn(x, y) ==
    IF y < 0 THEN << >>
    ELSE << << x, y >> >> \o EncodeColumn(x, y - 1)

RECURSIVE EncodeOrder(_)
\* for x in 0..IMAGE_WIDTH { .. } from x on (main.rs:197)
EncodeOrder(x) ==
    IF x = out_width THEN << >>
    ELSE EncodeColumn(x, out_height - 1) \o EncodeOrder(x + 1)

RECURSIVE JoinTrailing(_, _)
\* every token followed by the separator
JoinTrailing(tokens, sep) ==
    IF tokens = << >> THEN << >>
    ELSE Head(tokens) \o << sep >> \o JoinTrailing(Tail(tokens), sep)

RECURSIVE Join(_, _)
\* result.join(",") (main.rs:220)
Join(tokens, sep) ==
    IF tokens = << >> THEN << >>
    ELSE IF Len(tokens) = 1 THEN Head(tokens)
    ELSE Head(tokens) \o << sep >> \o Join(Tail(tokens), sep)

\* the loops run the body once per pixel of EncodeOrder, each run pushing one
\* token onto result (main.rs:195-221)
encode_uv_csv(img, pal) ==
    LET order   == EncodeOrder(0)
        visited == [k \in 1..Len(order) |->
                       EncodePixel(img, pal, order[k][1], order[k][2])]
        result  == [k \in 1..Len(order) |-> visited[k].token]
    IN  [ result  |-> result,
          visited |-> [k \in 1..Len(order) |->
                          [x |-> visited[k].x, y |-> visited[k].y,
                           idx |-> visited[k].idx]],
          csv     |-> Join(result, ",") ]

(***************************************************************************)
(* Idle values: each specification leaves the other parts' variables at    *)
(* these.                                                                  *)
(***************************************************************************)
NoImage == [w |-> 0, h |-> 0, kind |-> "none", seed |-> 0, step |-> 0]
NoSample == [ok |-> TRUE, colors |-> << >>, centres |-> << >>, reads |-> << >>]
NoEncode == [result |-> << >>, visited |-> << >>, csv |-> << >>]
NoCapture == [width |-> 0, height |-> 0, len |-> 0, content |-> 0]
NoCycle == [got |-> FALSE, malformed |-> FALSE, hash |-> 0, before |-> 0,
            changed |-> FALSE, encoded |-> FALSE, wrote |-> FALSE,
            wrote_ok |-> FALSE, updated |-> FALSE]
NoHistory == [writes_ok |-> FALSE, panic |-> "none"]

SamplerIdle == s_pc = "off" /\ ref_img = NoImage /\ s_out = NoSample

EncoderIdle ==
    e_pc = "off" /\ enc_img = NoImage /\ enc_palette = << >> /\ e_out = NoEncode

ProgramIdle ==
    /\ palette = << >> /\ w_pc = "off" /\ image = NoCapture
    /\ last_hash = 0 /\ csv = << >> /\ registry = << >> /\ mutex = "none"
    /\ poisoned = FALSE /\ last_update = None /\ quit_requested = FALSE
    /\ ui_pc = "off" /\ exited = FALSE /\ cyc = NoCycle /\ hist = NoHistory

(***************************************************************************)
(* SpecSampler: sample_palette applied to a reference image.               *)
(***************************************************************************)
\* seeds of the "coord" images
MaxSeed == 2

\* Solid images: every size with a few colours (among them 28 and 29, where
\* 9 * c crosses 255), and the smallest and the largest size with every seed
\* 0..127, whose three channels seed, 255 - seed and seed + 128 run through
\* every channel value 0..255.
SolidSeeds == {0, 1, 28, 29, 127}

RefImages ==
    { [w |-> w, h |-> h, kind |-> "solid", seed |-> c, step |-> 0] :
        w \in 1..MaxW, h \in 1..MaxH, c \in SolidSeeds }
    \cup
    { [w |-> d[1], h |-> d[2], kind |-> "solid", seed |-> c, step |-> 0] :
        d \in { <<1, 1>>, <<MaxW, MaxH>> }, c \in 0..((ChannelMod \div 2) - 1) }
    \cup
    { [w |-> w, h |-> h, kind |-> "coord", seed |-> c, step |-> 0] :
        w \in 1..MaxW, h \in 1..MaxH, c \in 0..MaxSeed }
    \cup
    { [w |-> w, h |-> h, kind |-> "grid", seed |-> 0, step |-> 0] :
        w \in 1..MaxW, h \in 1..MaxH }

InitSampler ==
    /\ s_pc = "start"
    /\ ref_img \in RefImages
    /\ s_out = NoSample
    /\ EncoderIdle
    /\ ProgramIdle

\* let palette = sample_palette(&palette_image) (main.rs:70, 154-171)
SamplePalette ==
    /\ s_pc = "start"
    /\ s_out' = sample_palette(ref_img)
    /\ s_pc' = IF s_out'.ok THEN "done" ELSE "panicked"
    /\ UNCHANGED << ref_img, encoderVars, programVars >>

NextSampler == SamplePalette

SpecSampler == InitSampler /\ [][NextSampler]_vars

(***************************************************************************)
(* Properties of sample_palette                                            *)
(***************************************************************************)
Cells == { << row, col >> : row \in 0..(PALETTE_ROWS - 1),
                            col \in 0..(PALETTE_COLS - 1) }

\* round((k + 0.5) * size / n), halves up, clamped to a valid pixel index:
\* the centre of cell k in exact arithmetic
ExactCentre(k, n, size) ==
    Min(((2 * k + 1) * size + n) \div (2 * n), size - 1)

\* the pixel of img nearest to (x, y)
NearestPixel(img, x, y) ==
    get_pixel(img, Clamp(x, 0, img.w - 1), Clamp(y, 0, img.h - 1))

\* the truncated mean, per channel, of the 3 x 3 neighbourhood of (cx, cy)
MeanOfPatch(img, cx, cy) ==
    [ch \in 1..3 |->
        ( NearestPixel(img, cx - 1, cy - 1)[ch] + NearestPixel(img, cx - 1, cy)[ch]
        + NearestPixel(img, cx - 1, cy + 1)[ch] + NearestPixel(img, cx, cy - 1)[ch]
        + NearestPixel(img, cx, cy)[ch]         + NearestPixel(img, cx, cy + 1)[ch]
        + NearestPixel(img, cx + 1, cy - 1)[ch] + NearestPixel(img, cx + 1, cy)[ch]
        + NearestPixel(img, cx + 1, cy + 1)[ch] ) \div 9]

\* C5: for every reference image of at least 1 x 1 pixels, sample_palette
\* returns exactly PALETTE_COLS * PALETTE_ROWS colours, and the entry at index
\* row * PALETTE_COLS + col is the averaged colour of the 3 x 3 patch centred
\* on cell (row, col): row-major, row 0 first, columns left to right.
C5_RowMajorPalette ==
    s_pc = "done" =>
        /\ Len(s_out.colors) = PALETTE_COLS * PALETTE_ROWS
        /\ \A c \in Cells :
              s_out.colors[c[1] * PALETTE_COLS + c[2] + 1]
                = MeanOfPatch(ref_img,
                              ExactCentre(c[2], PALETTE_COLS, ref_img.w),
                              ExactCentre(c[1], PALETTE_ROWS, ref_img.h))

\* a call that has returned for an image larger than the grid whose cells
\* (0, 1) and (1, 0) differ, so that the order of the entries shows
C5_Witness ==
    /\ s_pc = "done"
    /\ ref_img.kind = "coord"
    /\ ref_img.w = MaxW /\ ref_img.h = MaxH
    /\ s_out.colors[2] # s_out.colors[PALETTE_COLS + 1]

IsSolid(img) ==
    \A x \in 0..(img.w - 1), y \in 0..(img.h - 1) :
        get_pixel(img, x, y) = get_pixel(img, 0, 0)

\* C6: if every pixel of the reference image has the same colour c, every
\* entry of the palette sample_palette returns equals c exactly.
C6_SolidImageSolidPalette ==
    (s_pc = "done" /\ IsSolid(ref_img)) =>
        \A k \in 1..Len(s_out.colors) :
            s_out.colors[k] = get_pixel(ref_img, 0, 0)

\* a solid image with a channel above 255 / 9 has been sampled
C6_Witness ==
    /\ s_pc = "done"
    /\ ref_img.kind = "solid"
    /\ ref_img.w > 1 /\ ref_img.h > 1
    /\ Len(s_out.colors) = PALETTE_COLS * PALETTE_ROWS
    /\ s_out.colors[1][1] = 127

\* C7: sample_palette has no error path for an image of at least 1 x 1
\* pixels: every centre handed to average_patch is a pixel of the image, and
\* each cell makes exactly 9 reads, all of them at pixels of the image.
C7_SamplerReadsInBounds ==
    /\ s_pc # "panicked"
    /\ s_pc = "done" =>
        /\ Len(s_out.centres) = PALETTE_COLS * PALETTE_ROWS
        /\ Len(s_out.reads) = PALETTE_COLS * PALETTE_ROWS
        /\ \A k \in 1..Len(s_out.centres) :
              InImage(ref_img, s_out.centres[k][1], s_out.centres[k][2])
        /\ \A k \in 1..Len(s_out.reads) :
              /\ Len(s_out.reads[k]) = 9
              /\ \A j \in 1..9 :
                    InImage(ref_img, s_out.reads[k][j][1], s_out.reads[k][j][2])

\* a 7-wide image has been sampled: the centre of its last column rounds to 7,
\* one past the last pixel, and the patch around the clamped centre reaches
\* past the right edge; its height is below the grid's
C7_Witness ==
    /\ s_pc = "done"
    /\ ref_img.w = PALETTE_COLS /\ ref_img.h = 1
    /\ CellCentre(PALETTE_COLS - 1, PALETTE_COLS, ref_img.w) = ref_img.w
    /\ s_out.centres[PALETTE_COLS][1] = ref_img.w - 1

(***************************************************************************)
(* SpecEncoder: encode_uv_csv applied to a resized image and a palette.    *)
(***************************************************************************)
\* steps of the "table" images
MaxStep == 2
\* palettes repeat their first 1..MaxPeriod colours, or repeat nothing
MaxPeriod == 3

EncImages ==
    { [w |-> out_width, h |-> out_height, kind |-> "table", seed |-> c, step |-> a] :
        c \in 0..(NumColors - 1), a \in 0..MaxStep }

\* n colours, the first `period` of the table over and over
PaletteOf(n, period) == [i \in 1..n |-> ColorTable[((i - 1) % period) + 1]]

Palettes ==
    { PaletteOf(n, period) :
        n \in {1, 2, PALETTE_COLS, PALETTE_COLS * PALETTE_ROWS},
        period \in (1..MaxPeriod) \cup {NumColors} }

InitEncoder ==
    /\ e_pc = "start"
    /\ enc_img \in EncImages
    /\ enc_palette \in Palettes
    /\ e_out = NoEncode
    /\ SamplerIdle
    /\ ProgramIdle

\* let csv = encode_uv_csv(&resized, &palette) (main.rs:101, 194-221)
EncodeUvCsv ==
    /\ e_pc = "start"
    /\ e_out' = encode_uv_csv(enc_img, enc_palette)
    /\ e_pc' = "done"
    /\ UNCHANGED << enc_img, enc_palette, samplerVars, programVars >>

NextEncoder == EncodeUvCsv

SpecEncoder == InitEncoder /\ [][NextEncoder]_vars

(***************************************************************************)
(* Properties of encode_uv_csv                                             *)
(***************************************************************************)
\* the places of the separator sep in the character sequence str
SepPlaces(str, sep) == { i \in 1..Len(str) : str[i] = sep }

\* the k-th place of the separator; 0 and Len(str) + 1 bound the string
SepPlace(str, sep, k) ==
    IF k = 0 THEN 0
    ELSE IF k > Cardinality(SepPlaces(str, sep)) THEN Len(str) + 1
    ELSE CHOOSE p \in SepPlaces(str, sep) :
            Cardinality({ q \in SepPlaces(str, sep) : q < p }) = k - 1

\* the pieces of str between the separators: what str.split(sep) yields
Split(str, sep) ==
    [k \in 1..(Cardinality(SepPlaces(str, sep)) + 1) |->
        SubSeq(str, SepPlace(str, sep, k - 1) + 1, SepPlace(str, sep, k) - 1)]

DigitChars == { Digit(d) : d \in 0..9 }
DigitValue(c) == CHOOSE d \in 0..9 : Digit(d) = c

\* tok is digits "." digit digit
IsFixed2(tok) ==
    /\ Len(tok) >= 4
    /\ tok[Len(tok) - 2] = "."
    /\ \A k \in 1..Len(tok) : k # Len(tok) - 2 => tok[k] \in DigitChars

RECURSIVE DigitsValue(_)
DigitsValue(ds) ==
    IF ds = << >> THEN 0
    ELSE 10 * DigitsValue(SubSeq(ds, 1, Len(ds) - 1)) + DigitValue(ds[Len(ds)])

\* the number a fixed-point text stands for, in hundredths
Fixed2Value(tok) ==
    100 * DigitsValue(SubSeq(tok, 1, Len(tok) - 3))
    + 10 * DigitValue(tok[Len(tok) - 1]) + DigitValue(tok[Len(tok)])

\* tok is "<u>:<v>", u and v with two digits after the point
IsToken(tok) ==
    LET parts == Split(tok, ":")
    IN  Len(parts) = 2 /\ IsFixed2(parts[1]) /\ IsFixed2(parts[2])

\* C1: the string encode_uv_csv returns holds exactly out_width * out_height
\* tokens separated by single commas: no leading comma, no trailing comma, no
\* empty token.
C1_TokenCount ==
    e_pc = "done" =>
        LET tokens == Split(e_out.csv, ",")
        IN  /\ Len(tokens) = out_width * out_height
            /\ \A k \in 1..Len(tokens) : tokens[k] # << >> /\ IsToken(tokens[k])

\* an image of several colours has been encoded against the full palette
C1_Witness ==
    /\ e_pc = "done"
    /\ Len(enc_palette) = PALETTE_COLS * PALETTE_ROWS
    /\ enc_img.step > 0
    /\ Len(e_out.csv) > out_width * out_height

\* C2: tokens are emitted column-major, bottom to top: the k-th token
\* (k = 0, 1, ..) is the one computed from the pixel x = k div out_height,
\* y = out_height - 1 - (k mod out_height), so no pixel is visited twice or
\* skipped.
C2_ColumnMajorBottomUp ==
    e_pc = "done" =>
        LET tokens == Split(e_out.csv, ",")
        IN  /\ Len(e_out.visited) = out_width * out_height
            /\ Len(tokens) = out_width * out_height
            /\ \A k \in 0..(out_width * out_height - 1) :
                  LET x == k \div out_height
                      y == out_height - 1 - (k % out_height)
                  IN  /\ e_out.visited[k + 1].x = x
                      /\ e_out.visited[k + 1].y = y
                      /\ tokens[k + 1]
                           = UvToken(NearestIndex(get_pixel(enc_img, x, y),
                                                  enc_palette))

\* an image whose pixels all get different tokens has been encoded
C2_Witness ==
    /\ e_pc = "done"
    /\ Len(e_out.result) = out_width * out_height
    /\ \A j, k \in 1..Len(e_out.result) :
          j # k => e_out.result[j] # e_out.result[k]

\* C3: the index chosen for a pixel is the smallest index at the minimum
\* distance: no palette entry is strictly closer, no lower-indexed entry is
\* equally close.
C3_NearestLowestIndex ==
    e_pc = "done" =>
        \A k \in 1..Len(e_out.visited) :
            LET v   == e_out.visited[k]
                rgb == get_pixel(enc_img, v.x, v.y)
                d   == lab_distance(rgb, enc_palette[v.idx + 1])
            IN  /\ v.idx \in 0..(Len(enc_palette) - 1)
                /\ \A j \in 0..(Len(enc_palette) - 1) :
                      /\ lab_distance(rgb, enc_palette[j + 1]) >= d
                      /\ j < v.idx => lab_distance(rgb, enc_palette[j + 1]) > d

\* a pixel has been matched to an entry other than the first although a
\* later entry of the palette is exactly as close
C3_Witness ==
    /\ e_pc = "done"
    /\ \E k \in 1..Len(e_out.visited) :
          LET v   == e_out.visited[k]
              rgb == get_pixel(enc_img, v.x, v.y)
          IN  /\ v.idx > 0
              /\ \E j \in (v.idx + 1)..(Len(enc_palette) - 1) :
                    lab_distance(rgb, enc_palette[j + 1])
                      = lab_distance(rgb, enc_palette[v.idx + 1])

\* the cell a token decodes to: col = floor(u * Cols),
\* row_from_bottom = floor(v * Rows)
DecodeToken(tok) ==
    LET parts == Split(tok, ":")
    IN  << (Fixed2Value(parts[1]) * PALETTE_COLS) \div 100,
           (Fixed2Value(parts[2]) * PALETTE_ROWS) \div 100 >>

PaletteIndices == 0..(PALETTE_COLS * PALETTE_ROWS - 1)

\* C4: the token emitted for palette index i decodes back to the cell of i:
\* floor(u * Cols) = i % Cols and floor(v * Rows) = Rows - 1 - (i / Cols);
\* hence distinct indices yield distinct tokens.
C4_TokenRoundTrip ==
    /\ \A i \in PaletteIndices :
          DecodeToken(UvToken(i))
            = << i % PALETTE_COLS, PALETTE_ROWS - 1 - (i \div PALETTE_COLS) >>
    /\ Cardinality({ UvToken(i) : i \in PaletteIndices }) = Cardinality(PaletteIndices)
    /\ e_pc = "done" =>
          \A k \in 1..Len(e_out.visited) :
              LET i == e_out.visited[k].idx
              IN  DecodeToken(e_out.result[k])
                    = << i % PALETTE_COLS,
                         PALETTE_ROWS - 1 - (i \div PALETTE_COLS) >>

\* tokens for the first and for the last palette index have been emitted in
\* one string
C4_Witness ==
    /\ e_pc = "done"
    /\ \E j, k \in 1..Len(e_out.visited) :
          /\ e_out.visited[j].idx = 0
          /\ e_out.visited[k].idx = PALETTE_COLS * PALETTE_ROWS - 1

(***************************************************************************)
(* Spec: the program. main builds the palette, spawns the watcher thread   *)
(* (main.rs:73-127) and runs the UI (main.rs:36-61, 136-140); the two      *)
(* share Arc<Mutex<AppState>>.                                             *)
(***************************************************************************)
\* captured images are up to MaxDim x MaxDim pixels
MaxDim == 2
\* pixel contents of a captured image: 0..MaxContent
MaxContent == 1
\* SystemTime::now() is one of the seconds 0..MaxTime
MaxTime == 1
\* the hash values are 0..HashRange-1
HashRange == 3

\* The reference image: a chart of the table's colours, 4 x 4 pixels a cell
EMBEDDED_PALETTE ==
    [w |-> 4 * PALETTE_COLS, h |-> 4 * PALETTE_ROWS, kind |-> "grid",
     seed |-> 0, step |-> 0]

\* What clipboard.get_image() can return Ok: RGBA pixels, 4 bytes each, in a
\* buffer that is one pixel short of width x height, exact, or one pixel long.
Captures ==
    { [width |-> w, height |-> h, len |-> 4 * w * h + 4 * d, content |-> c] :
        w \in 1..MaxDim, h \in 1..MaxDim, d \in -1..1, c \in 0..MaxContent }

\* main.rs:145-152: DefaultHasher over the bytes, a fixed function of the
\* buffer (its length and its content) alone; the small range makes equal
\* hashes of different buffers, and the hash 0, happen.
calculate_image_hash(img) == (img.content + img.len \div 4) % HashRange

\* RgbaImage::from_raw(width, height, buf) is Some when the buffer holds at
\* least width * height pixels (main.rs:88-92)
FromRawOk(img) == img.len >= 4 * img.width * img.height

\* the raw image of main.rs:88-93
RawImage(img) ==
    [w |-> img.width, h |-> img.height, kind |-> "table",
     seed |-> 5 * img.content, step |-> 1]

\* main.rs:95-99
resize_exact(raw) ==
    [w |-> out_width, h |-> out_height, kind |-> "nearest",
     seed |-> raw.seed, step |-> raw.step, sw |-> raw.w, sh |-> raw.h]

\* the loop body with the status update moved in front of the registry write
NextPcWriteUnderLock(pc) ==
    CASE pc = "from_raw" -> "encode"
      [] pc = "encode"   -> "lock"
      [] pc = "lock"     -> "write"
      [] pc = "write"    -> "update"
      [] pc = "update"   -> "qlock"
      [] pc = "qlock"    -> "qcheck"
      [] pc = "qcheck"   -> "sleep"
      [] pc = "sleep"    -> "poll"

\* the order of the statements of the loop body (main.rs:82-126)
NextPc(pc) ==
    CASE pc = "from_raw" -> "encode"
      [] pc = "encode"   -> "write"
      [] pc = "write"    -> "lock"
      [] pc = "lock"     -> "update"
      [] pc = "update"   -> "qlock"
      [] pc = "qlock"    -> "qcheck"
      [] pc = "qcheck"   -> "sleep"
      [] pc = "sleep"    -> "poll"

Init ==
    /\ palette = sample_palette(EMBEDDED_PALETTE).colors
    /\ w_pc = "start"
    /\ image = NoCapture
    /\ last_hash = 0
    /\ csv = << >>
    /\ registry = << >>
    /\ mutex = "none"
    /\ poisoned = FALSE
    /\ last_update = None
    /\ quit_requested = FALSE
    /\ ui_pc = "idle"
    /\ exited = FALSE
    /\ cyc = NoCycle
    /\ hist = NoHistory
    /\ SamplerIdle
    /\ EncoderIdle

\* A panic of the watcher thread: the thread ends; a guard it holds is dropped
\* while unwinding, which poisons the mutex.
WatcherPanics(why) ==
    /\ w_pc' = "panicked"
    /\ mutex' = IF mutex = "watcher" THEN "none" ELSE mutex
    /\ poisoned' = (poisoned \/ mutex = "watcher")
    /\ hist' = [hist EXCEPT !.panic = why]

\* main.rs:74-80: .expect("Failed to open registry key") and
\* Clipboard::new().unwrap() panic when the registry or the clipboard fails
WatcherStart ==
    /\ ~exited /\ w_pc = "start"
    /\ \E ok \in BOOLEAN :
          IF ok
          THEN w_pc' = "poll" /\ UNCHANGED << mutex, poisoned, hist >>
          ELSE WatcherPanics("start")
    /\ UNCHANGED << palette, image, last_hash, csv, registry, last_update,
                    quit_requested, ui_pc, exited, cyc, samplerVars, encoderVars >>

\* main.rs:83-86: get_image, the hash and its comparison with last_hash
WatcherPoll ==
    /\ ~exited /\ w_pc = "poll"
    /\ \E c \in Captures \cup {NoCapture} :
          LET got     == c # NoCapture
              h       == IF got THEN calculate_image_hash(c) ELSE 0
              changed == got /\ h # last_hash
          IN  /\ cyc' = [NoCycle EXCEPT !.got = got,
                                        !.malformed = got /\ c.len # 4 * c.width * c.height,
                                        !.hash = h,
                                        !.before = last_hash,
                                        !.changed = changed]
              /\ last_hash' = IF changed THEN h ELSE last_hash
              /\ image' = IF changed THEN c ELSE NoCapture
              /\ w_pc' = IF changed THEN "from_raw" ELSE "qlock"
    /\ UNCHANGED << palette, csv, registry, mutex, poisoned, last_update,
                    quit_requested, ui_pc, exited, hist, samplerVars, encoderVars >>

\* main.rs:88-93: .expect("Invalid clipboard image")
WatcherFromRaw ==
    /\ ~exited /\ w_pc = "from_raw"
    /\ IF FromRawOk(image)
       THEN w_pc' = NextPc(w_pc) /\ UNCHANGED << mutex, poisoned, hist >>
       ELSE WatcherPanics("image")
    /\ UNCHANGED << palette, image, last_hash, csv, registry, last_update,
                    quit_requested, ui_pc, exited, cyc, samplerVars, encoderVars >>

\* main.rs:95-101
WatcherEncode ==
    /\ ~exited /\ w_pc = "encode"
    /\ csv' = encode_uv_csv(resize_exact(RawImage(image)), palette).csv
    /\ cyc' = [cyc EXCEPT !.encoded = TRUE]
    /\ w_pc' = NextPc(w_pc)
    /\ UNCHANGED << palette, image, last_hash, registry, mutex, poisoned,
                    last_update, quit_requested, ui_pc, exited, hist,
                    samplerVars, encoderVars >>

\* main.rs:102-108: set_raw_value(..).expect("Failed to write to registry")
WatcherWrite ==
    /\ ~exited /\ w_pc = "write"
    /\ \E ok \in BOOLEAN :
          IF ok
          THEN /\ registry' = csv
               /\ cyc' = [cyc EXCEPT !.wrote = TRUE, !.wrote_ok = TRUE]
               /\ hist' = [hist EXCEPT !.writes_ok = TRUE]
               /\ w_pc' = NextPc(w_pc)
               /\ UNCHANGED << mutex, poisoned >>
          ELSE /\ cyc' = [cyc EXCEPT !.wrote = TRUE]
               /\ WatcherPanics("write")
               /\ UNCHANGED registry
    /\ csv' = << >>
    /\ UNCHANGED << palette, image, last_hash, last_update, quit_requested,
                    ui_pc, exited, samplerVars, encoderVars >>

\* main.rs:110 and 119: state.lock().unwrap() blocks while the UI holds the
\* mutex and panics when it is poisoned
WatcherLock ==
    /\ ~exited /\ w_pc \in {"lock", "qlock"}
    /\ IF poisoned
       THEN WatcherPanics("lock")
       ELSE /\ mutex = "none"
            /\ mutex' = "watcher"
            /\ w_pc' = NextPc(w_pc)
            /\ UNCHANGED << poisoned, hist >>
    /\ UNCHANGED << palette, image, last_hash, csv, registry, last_update,
                    quit_requested, ui_pc, exited, cyc, samplerVars, encoderVars >>

\* main.rs:112-115: last_update = Some(now), then the guard and the image go
\* out of scope
WatcherUpdate ==
    /\ ~exited /\ w_pc = "update"
    /\ \E now \in 0..MaxTime : last_update' = Some(now)
    /\ mutex' = "none"
    /\ image' = NoCapture
    /\ cyc' = [cyc EXCEPT !.updated = TRUE]
    /\ w_pc' = NextPc(w_pc)
    /\ UNCHANGED << palette, last_hash, csv, registry, poisoned, quit_requested,
                    ui_pc, exited, hist, samplerVars, encoderVars >>

\* main.rs:119-123: the quit check under the lock; break ends the thread
WatcherQuitCheck ==
    /\ ~exited /\ w_pc = "qcheck"
    /\ mutex' = "none"
    /\ w_pc' = IF quit_requested THEN "stopped" ELSE NextPc(w_pc)
    /\ UNCHANGED << palette, image, last_hash, csv, registry, poisoned,
                    last_update, quit_requested, ui_pc, exited, cyc, hist,
                    samplerVars, encoderVars >>

\* main.rs:125: thread::sleep(Duration::from_secs(1))
WatcherSleep ==
    /\ ~exited /\ w_pc = "sleep"
    /\ w_pc' = NextPc(w_pc)
    /\ UNCHANGED << palette, image, last_hash, csv, registry, mutex, poisoned,
                    last_update, quit_requested, ui_pc, exited, cyc, hist,
                    samplerVars, encoderVars >>

\* main.rs:37: self.state.lock().unwrap() at the start of a frame; a panic of
\* the UI thread, which is the main thread, ends the process
UiLock ==
    /\ ~exited /\ ui_pc = "idle"
    /\ IF poisoned
       THEN ui_pc' = "panicked" /\ exited' = TRUE /\ UNCHANGED mutex
       ELSE mutex = "none" /\ mutex' = "ui" /\ ui_pc' = "frame" /\ UNCHANGED exited
    /\ UNCHANGED << palette, w_pc, image, last_hash, csv, registry, poisoned,
                    last_update, quit_requested, cyc, hist, samplerVars,
                    encoderVars >>

\* main.rs:39-61: the frame shows last_update; a click on Quit sets
\* quit_requested, and process::exit(0) follows with the guard still held;
\* else the guard is dropped at the end of update
UiFrame ==
    /\ ~exited /\ ui_pc = "frame"
    /\ \E clicked \in BOOLEAN :
          /\ quit_requested' = (quit_requested \/ clicked)
          /\ IF quit_requested'
             THEN exited' = TRUE /\ UNCHANGED << mutex, ui_pc >>
             ELSE mutex' = "none" /\ ui_pc' = "idle" /\ UNCHANGED exited
    /\ UNCHANGED << palette, w_pc, image, last_hash, csv, registry, poisoned,
                    last_update, cyc, hist, samplerVars, encoderVars >>

\* main.rs:136-140: the window is closed, run_native returns and main ends
UiClose ==
    /\ ~exited /\ ui_pc = "idle"
    /\ exited' = TRUE
    /\ UNCHANGED << palette, w_pc, image, last_hash, csv, registry, mutex,
                    poisoned, last_update, quit_requested, ui_pc, cyc, hist,
                    samplerVars, encoderVars >>

Next ==
    \/ WatcherStart
    \/ WatcherPoll
    \/ WatcherFromRaw
    \/ WatcherEncode
    \/ WatcherWrite
    \/ WatcherLock
    \/ WatcherUpdate
    \/ WatcherQuitCheck
    \/ WatcherSleep
    \/ UiLock
    \/ UiFrame
    \/ UiClose

Spec == Init /\ [][Next]_vars

(***************************************************************************)
(* Properties of the program                                               *)
(***************************************************************************)
\* C8: a captured image whose buffer length does not match its declared
\* width x height is rejected without a panic: it never reaches the encoder,
\* nothing is written to the registry for it, and the polling loop keeps
\* running.
C8_MalformedRejected ==
    /\ hist.panic # "image"
    /\ cyc.malformed => (~cyc.encoded /\ ~cyc.wrote)

\* the polling cycle is over: the loop body's if-block is behind the watcher,
\* or the watcher died in it
CycleOver ==
    \/ w_pc \in {"qlock", "qcheck", "sleep", "stopped"}
    \/ w_pc = "panicked" /\ hist.panic # "start"

\* C9: in each polling cycle an encode and a registry write happen if and only
\* if the clipboard yields an image whose hash differs from the stored hash,
\* and then the stored hash is the new hash; a cycle without an image changes
\* neither the stored hash nor the registry.
C9_ChangeDetection ==
    /\ CycleOver =>
          ((cyc.encoded /\ cyc.wrote) <=> (cyc.got /\ cyc.hash # cyc.before))
    /\ (cyc.got /\ cyc.hash # cyc.before) => last_hash = cyc.hash
    /\ ~cyc.got => (last_hash = cyc.before /\ ~cyc.encoded /\ ~cyc.wrote)

\* the same for the cycles the watcher survives
ChangeDetectionInCompletedCycles ==
    /\ w_pc \in {"qlock", "qcheck", "sleep", "stopped"} =>
          ((cyc.encoded /\ cyc.wrote_ok) <=> (cyc.got /\ cyc.hash # cyc.before))
    /\ (cyc.encoded \/ cyc.wrote) => (cyc.got /\ cyc.hash # cyc.before)
    /\ (cyc.got /\ cyc.hash # cyc.before) => last_hash = cyc.hash
    /\ ~(cyc.got /\ cyc.hash # cyc.before) => last_hash = cyc.before

\* C10: last_update is Some only after a registry write has completed, and is
\* set only after the write of the same cycle; the watcher holds the mutex
\* only for the status update and the quit check, never where it can panic or
\* block, so the mutex is never poisoned and no lock().unwrap() fails.
C10_StatusAfterWrite ==
    /\ last_update # None => hist.writes_ok
    /\ cyc.updated => cyc.wrote_ok
    /\ mutex = "watcher" => w_pc \in {"update", "qcheck"}
    /\ ~poisoned
    /\ hist.panic # "lock"
    /\ ui_pc # "panicked"

\* the watcher has died of a failed registry write in a later cycle, the status
\* of an earlier one is set, and the UI has taken the lock since
C10_Witness ==
    /\ w_pc = "panicked"
    /\ hist.panic = "write"
    /\ last_update # None
    /\ ui_pc = "frame"
    /\ mutex = "ui"

=============================================================================
